---- MODULE Spec2Model ----
(***************************************************************************)
(* Model of the toy payment engine (src/src/main.rs).                      *)
(*                                                                         *)
(* The engine replays a stream of csv records against two hash maps:       *)
(*   tx_map     : tx_id     -> the stored InputRecord                      *)
(*   client_map : client_id -> OutputRecord {available, held, total,       *)
(*                                           locked}                       *)
(* One action per kind of input record; each action is the whole handler.  *)
(*                                                                         *)
(* Numbers.  An input amount is an f32.  The model names an f32 by the     *)
(* value of the product `amount * 1e4` measured on a grid of 1/Grid of a   *)
(* fixed-point unit, so an amount a stands for a/Grid ten-thousandths.     *)
(* `.round()` and `as i64` are computed on that grid.  Balances are i64;   *)
(* the model keeps a two's complement width, scaled down from 64 to        *)
(* IntBits bits; `as i64` saturates, and `+=` / `-=` are overflow-checked  *)
(* as in the dev profile that `cargo run` and `cargo test` build           *)
(* (main.rs:341): an overflow panics and ends the run, pc = "panicked",    *)
(* with the maps as the statements before the overflowing one left them.   *)
(*                                                                         *)
(* last, result, applied, snap and scen are history variables: they record *)
(* what was processed and are read by no handler.                          *)
(***************************************************************************)
EXTENDS Integers, Sequences, FiniteSets, TLC

\* ------------------------------------------------------------------ bounds
MaxClient == 2
MaxTx == 2
IntBits == 4
Grid == 4

ClientIds == 1..MaxClient
TxIds == 1..MaxTx

I64_MAX == 2^(IntBits - 1) - 1
I64_MIN == -(2^(IntBits - 1))

\* Option<T>
None == <<>>
Some(x) == <<x>>

\* An f32 so large that `as i64` saturates.
Huge == Grid * (I64_MAX + 2)

\* The amount of the chargeback scenario of spec.md section 8 and of
\* sample_data/disputes.csv (5.0), on the model's scale: five units.
ScenarioAmount == 5 * Grid

\* The f32 amounts the input may carry (on the grid): a negative amount,
\* zero, one fixed-point unit, just under two units (more fractional digits
\* than the fixed point keeps), three units, five units, and a saturating
\* one.
F32Values == {-Grid, 0, Grid, 2 * Grid - 1, 3 * Grid, ScenarioAmount, Huge}

\* ------------------------------------------------------------ conversions
\* f32::round: to the nearest integer, halves away from zero.
Round(a) ==
    IF a >= 0 THEN (2 * a + Grid) \div (2 * Grid)
    ELSE -((2 * (-a) + Grid) \div (2 * Grid))

\* the integer part of an f32 (what `as i64` keeps of a finite value)
Trunc(a) == IF a >= 0 THEN a \div Grid ELSE -((-a) \div Grid)

\* `as i64` on a value of any size: saturating
SatCast(x) == IF x > I64_MAX THEN I64_MAX ELSE IF x < I64_MIN THEN I64_MIN ELSE x

\* (amount * 1e4).round() as i64     (deposit, withdrawal)
ToFixedRound(a) == SatCast(Round(a))

\* (amount * 1e4) as i64             (dispute, resolve, chargeback)
ToFixedTrunc(a) == SatCast(Trunc(a))

\* an i64 result that does not overflow
InI64(x) == I64_MIN <= x /\ x <= I64_MAX

\* ------------------------------------------------------------------ types
InputRecord(ty, c, t, a) ==
    [tx_type |-> ty, deposit_state |-> "NotApplicable",
     client_id |-> c, tx_id |-> t, amount |-> a]

OutputRecord_new_locked(amount) ==
    [available |-> amount, held |-> 0, total |-> amount, locked |-> TRUE]

OutputRecord_new(amount) ==
    [available |-> amount, held |-> 0, total |-> amount, locked |-> FALSE]

\* HashMap::insert
Insert(m, k, v) == [x \in (DOMAIN m) \cup {k} |-> IF x = k THEN v ELSE m[x]]

\* the outcome of one handler: the two maps as it leaves them and its result
Out(tm, cm, res) == [tm |-> tm, cm |-> cm, res |-> res]

is_client_locked_never(client_id, cm) == FALSE

is_client_locked(client_id, cm) ==
    client_id \in DOMAIN cm /\ cm[client_id].locked

\* --------------------------------------------------- checked arithmetic
\* The handlers change a balance by a sequence of compound assignments
\* (`+=`, `-=`), each overflow-checked.  An update is <<field, delta>>.
\* CheckedApply runs them in order and stops at the first that overflows,
\* leaving the earlier ones applied.
RECURSIVE CheckedApply(_, _)
CheckedApply(o, updates) ==
    IF updates = <<>> THEN [o |-> o, ok |-> TRUE]
    ELSE LET f == Head(updates)[1]
             v == o[f] + Head(updates)[2]
         IN IF ~InI64(v) THEN [o |-> o, ok |-> FALSE]
            ELSE CheckedApply([o EXCEPT ![f] = v], Tail(updates))

deposit_updates_available_only(amount) == << <<"available", amount>> >>

deposit_updates(amount) == << <<"available", amount>>, <<"total", amount>> >>

withdraw_updates_available_only(amount) == << <<"available", -amount>> >>

withdraw_updates(amount) == << <<"available", -amount>>, <<"total", -amount>> >>

dispute_updates_available_only(amount) == << <<"available", -amount>> >>

dispute_updates(amount) == << <<"available", -amount>>, <<"held", amount>> >>

resolve_updates_available_only(amount) == << <<"available", amount>> >>

resolve_updates(amount) == << <<"available", amount>>, <<"held", -amount>> >>

chargeback_updates_held_only(amount) == << <<"held", -amount>> >>

chargeback_updates_total_only(amount) == << <<"total", -amount>> >>

chargeback_updates(amount) == << <<"held", -amount>>, <<"total", -amount>> >>

\* ---------------------------------------------------------------- handlers
\* `amount < 0f32` in handle_deposit and handle_withdraw
amount_negative_never(a) == FALSE

amount_negative(a) == a < 0

\* the first check of handle_deposit and of handle_withdraw
deposit_invalid(record, tm, cm) ==
    record.tx_id \in DOMAIN tm \/ is_client_locked(record.client_id, cm)

withdraw_invalid_lock_only(record, tm, cm) ==
    is_client_locked(record.client_id, cm)

withdraw_invalid(record, tm, cm) ==
    record.tx_id \in DOMAIN tm \/ is_client_locked(record.client_id, cm)

\* the record a handler stores in tx_map
deposit_stored(record) == [record EXCEPT !.deposit_state = "Deposited"]

withdraw_stored_deposited(record) ==
    [record EXCEPT !.deposit_state = "Deposited"]

withdraw_stored(record) == record

handle_deposit(record, tm, cm) ==
    LET c == record.client_id IN
    IF deposit_invalid(record, tm, cm) THEN Out(tm, cm, "invalid")
    ELSE IF record.amount = None THEN Out(tm, cm, "missing amount")
    ELSE IF amount_negative(record.amount[1]) THEN Out(tm, cm, "negative")
    ELSE
      LET amount == ToFixedRound(record.amount[1])
          tm2 == Insert(tm, record.tx_id, deposit_stored(record))
      IN IF c \in DOMAIN cm
         THEN LET r == CheckedApply(cm[c], deposit_updates(amount))
              IN Out(tm2, [cm EXCEPT ![c] = r.o],
                     IF r.ok THEN "ok" ELSE "panic")
         ELSE Out(tm2, Insert(cm, c, OutputRecord_new(amount)), "ok")

\* the funds check of handle_withdraw
insufficient_funds_never(amount, account) == FALSE

insufficient_funds(amount, account) == amount > account.available

handle_withdraw(record, tm, cm) ==
    LET c == record.client_id IN
    IF withdraw_invalid(record, tm, cm) THEN Out(tm, cm, "invalid")
    ELSE IF record.amount = None THEN Out(tm, cm, "missing amount")
    ELSE IF amount_negative(record.amount[1]) THEN Out(tm, cm, "negative")
    ELSE
      LET amount == ToFixedRound(record.amount[1])
          tm2 == Insert(tm, record.tx_id, withdraw_stored(record))
      IN IF c \in DOMAIN cm
         THEN IF insufficient_funds(amount, cm[c])
              THEN Out(tm2, cm, "rejected")
              ELSE LET r == CheckedApply(cm[c], withdraw_updates(amount))
                   IN Out(tm2, [cm EXCEPT ![c] = r.o],
                          IF r.ok THEN "ok" ELSE "panic")
         ELSE Out(tm2, Insert(cm, c, OutputRecord_new(0)), "rejected")

\* the ownership / state / lock check of the three dispute handlers:
\* d is the stored record, record the incoming one
dispute_rejected_any_client(d, record, cm) ==
    \/ d.deposit_state # "Deposited"
    \/ is_client_locked(d.client_id, cm)

dispute_rejected(d, record, cm) ==
    \/ d.client_id # record.client_id
    \/ d.deposit_state # "Deposited"
    \/ is_client_locked(record.client_id, cm)

resolve_rejected_any_state(d, record, cm) ==
    \/ d.client_id # record.client_id
    \/ is_client_locked(record.client_id, cm)

resolve_rejected(d, record, cm) ==
    \/ d.client_id # record.client_id
    \/ d.deposit_state # "InDispute"
    \/ is_client_locked(record.client_id, cm)

chargeback_rejected_any_client(d, record, cm) ==
    \/ d.deposit_state # "InDispute"
    \/ is_client_locked(d.client_id, cm)

chargeback_rejected(d, record, cm) ==
    \/ d.client_id # record.client_id
    \/ d.deposit_state # "InDispute"
    \/ is_client_locked(record.client_id, cm)

handle_dispute(record, tm, cm) ==
    IF record.tx_id \notin DOMAIN tm THEN Out(tm, cm, "invalid")
    ELSE
      LET d == tm[record.tx_id]
          c == d.client_id
      IN IF dispute_rejected(d, record, cm) THEN Out(tm, cm, "rejected")
         \* amount.unwrap() and get_mut(..).unwrap()
         ELSE IF d.amount = None \/ c \notin DOMAIN cm THEN Out(tm, cm, "panic")
         ELSE
           LET amount_to_hold == ToFixedTrunc(d.amount[1])
               tm2 == [tm EXCEPT ![record.tx_id].deposit_state = "InDispute"]
               r == CheckedApply(cm[c], dispute_updates(amount_to_hold))
           IN Out(tm2, [cm EXCEPT ![c] = r.o], IF r.ok THEN "ok" ELSE "panic")

handle_resolve(record, tm, cm) ==
    IF record.tx_id \notin DOMAIN tm THEN Out(tm, cm, "invalid")
    ELSE
      LET d == tm[record.tx_id]
          c == d.client_id
      IN IF resolve_rejected(d, record, cm) THEN Out(tm, cm, "rejected")
         ELSE IF d.amount = None \/ c \notin DOMAIN cm THEN Out(tm, cm, "panic")
         ELSE
           LET amount_to_resolve == ToFixedTrunc(d.amount[1])
               tm2 == [tm EXCEPT ![record.tx_id].deposit_state = "Deposited"]
               r == CheckedApply(cm[c], resolve_updates(amount_to_resolve))
           IN Out(tm2, [cm EXCEPT ![c] = r.o], IF r.ok THEN "ok" ELSE "panic")

handle_chargeback(record, tm, cm) ==
    IF record.tx_id \notin DOMAIN tm THEN Out(tm, cm, "invalid")
    ELSE
      LET d == tm[record.tx_id]
          c == d.client_id
      IN IF chargeback_rejected(d, record, cm) THEN Out(tm, cm, "rejected")
         ELSE IF d.amount = None \/ c \notin DOMAIN cm THEN Out(tm, cm, "panic")
         ELSE
           LET amount_to_withdraw == ToFixedTrunc(d.amount[1])
               r == CheckedApply(cm[c], chargeback_updates(amount_to_withdraw))
           IN IF r.ok
              THEN Out(tm, [cm EXCEPT ![c] = [r.o EXCEPT !.locked = TRUE]], "ok")
              ELSE Out(tm, [cm EXCEPT ![c] = r.o], "panic")

\* ------------------------------------------------------------------ state
VARIABLES
    tx_map,       \* process_csv_file's tx_map
    client_map,   \* main's client_map
    pc,           \* "running", "done" (end of input) or "panicked"
    last,         \* type, client and tx of the record processed last
    result,       \* what its handler returned
    applied,      \* history: tx_id of every accepted deposit / withdrawal ->
                  \*   the change it made to the client's available
    snap,         \* history: the dispute accepted last, with the owner's
                  \*   balance before it carried along the client's later
                  \*   accepted deposits and withdrawals (between), until
                  \*   its resolve is accepted (resolved)
    scen,         \* history: k when the records processed so far are the
                  \*   first k records of Scenario and nothing else, else -1
    charged       \* history: client of every accepted chargeback -> the
                  \*   amount it took out of the client's total

vars == <<tx_map, client_map, pc, last, result, applied, snap, scen,
          charged>>

NoRecord == [tx_type |-> "none", client_id |-> 0, tx_id |-> 0]

Init ==
    /\ tx_map = <<>>
    /\ client_map = <<>>
    /\ pc = "running"
    /\ last = NoRecord
    /\ result = "none"
    /\ applied = <<>>
    /\ snap = None
    /\ scen = 0
    /\ charged = <<>>

\* the three amounts of a client's account, all zero when there is none
Balance(cm, c) ==
    IF c \in DOMAIN cm
    THEN [available |-> cm[c].available, held |-> cm[c].held,
          total |-> cm[c].total]
    ELSE [available |-> 0, held |-> 0, total |-> 0]

\* the history variables after a handler returned `out` for `record`
NextApplied(record, out) ==
    IF out.res = "ok" /\ record.tx_type \in {"deposit", "withdrawal"}
    THEN Insert(applied, record.tx_id,
                Balance(out.cm, record.client_id).available
                  - Balance(client_map, record.client_id).available)
    ELSE applied

NextSnap(record, out) ==
    IF out.res # "ok" THEN snap
    ELSE IF record.tx_type = "dispute"
    THEN Some([tx_id |-> record.tx_id, client_id |-> record.client_id,
               acct |-> Balance(client_map, record.client_id),
               between |-> FALSE, resolved |-> FALSE])
    ELSE IF record.tx_type = "resolve"
    THEN IF snap # None /\ snap[1].tx_id = record.tx_id /\ ~snap[1].resolved
         THEN Some([snap[1] EXCEPT !.resolved = TRUE])
         ELSE None
    ELSE IF record.tx_type = "chargeback" THEN None
    ELSE IF snap # None /\ snap[1].client_id = record.client_id
    THEN IF snap[1].resolved THEN None
         ELSE LET delta == NextApplied(record, out)[record.tx_id]
              IN Some([snap[1] EXCEPT !.acct.available = @ + delta,
                                      !.acct.total = @ + delta,
                                      !.between = TRUE])
    ELSE snap

\* The chargeback scenario: deposit, dispute, resolve, dispute and
\* chargeback of tx 1 by client 1, then any further deposit to client 1.
Scenario ==
    << InputRecord("deposit", 1, 1, Some(ScenarioAmount)),
       InputRecord("dispute", 1, 1, None),
       InputRecord("resolve", 1, 1, None),
       InputRecord("dispute", 1, 1, None),
       InputRecord("chargeback", 1, 1, None) >>

NextScen(record) ==
    IF scen >= 0 /\ scen < Len(Scenario)
    THEN IF record = Scenario[scen + 1] THEN scen + 1 ELSE -1
    ELSE IF scen = Len(Scenario)
            /\ record.tx_type = "deposit" /\ record.client_id = 1
    THEN scen + 1
    ELSE -1

NextCharged(record, out) ==
    IF out.res = "ok" /\ record.tx_type = "chargeback"
    THEN Insert(charged, record.client_id,
                Balance(client_map, record.client_id).total
                  - Balance(out.cm, record.client_id).total)
    ELSE charged

\* process_input_record on a record that parsed: dispatch on tx_type
Apply(record, out) ==
    /\ pc = "running"
    /\ tx_map' = out.tm
    /\ client_map' = out.cm
    /\ pc' = IF out.res = "panic" THEN "panicked" ELSE "running"
    /\ last' = [tx_type |-> record.tx_type, client_id |-> record.client_id,
                tx_id |-> record.tx_id]
    /\ result' = out.res
    /\ applied' = NextApplied(record, out)
    /\ snap' = NextSnap(record, out)
    /\ scen' = NextScen(record)
    /\ charged' = NextCharged(record, out)

Deposit ==
    \E c \in ClientIds, t \in TxIds, a \in {None} \cup {Some(v) : v \in F32Values} :
        LET record == InputRecord("deposit", c, t, a)
        IN Apply(record, handle_deposit(record, tx_map, client_map))

Withdrawal ==
    \E c \in ClientIds, t \in TxIds, a \in {None} \cup {Some(v) : v \in F32Values} :
        LET record == InputRecord("withdrawal", c, t, a)
        IN Apply(record, handle_withdraw(record, tx_map, client_map))

Dispute ==
    \E c \in ClientIds, t \in TxIds :
        LET record == InputRecord("dispute", c, t, None)
        IN Apply(record, handle_dispute(record, tx_map, client_map))

Resolve ==
    \E c \in ClientIds, t \in TxIds :
        LET record == InputRecord("resolve", c, t, None)
        IN Apply(record, handle_resolve(record, tx_map, client_map))

Chargeback ==
    \E c \in ClientIds, t \in TxIds :
        LET record == InputRecord("chargeback", c, t, None)
        IN Apply(record, handle_chargeback(record, tx_map, client_map))

\* process_input_record on a record the csv deserializer could not parse
ParseError ==
    /\ pc = "running"
    /\ last' = [NoRecord EXCEPT !.tx_type = "unparsed"]
    /\ result' = "parse error"
    /\ scen' = -1
    /\ UNCHANGED <<tx_map, client_map, pc, applied, snap, charged>>

\* the csv reader's iterator ends: process_csv_file returns
EndOfInput ==
    /\ pc = "running"
    /\ pc' = "done"
    /\ UNCHANGED <<tx_map, client_map, last, result, applied, snap, scen,
                   charged>>

Next ==
    \/ Deposit
    \/ Withdrawal
    \/ Dispute
    \/ Resolve
    \/ Chargeback
    \/ ParseError
    \/ EndOfInput

Spec == Init /\ [][Next]_vars

\* ------------------------------------------------------------- type check
TypeOK ==
    /\ DOMAIN tx_map \subseteq TxIds
    /\ DOMAIN client_map \subseteq ClientIds
    /\ pc \in {"running", "done", "panicked"}
    /\ \A c \in DOMAIN client_map :
         /\ InI64(client_map[c].available)
         /\ InI64(client_map[c].held)
         /\ InI64(client_map[c].total)

\* a step that processed a record (every step but the end of the input)
Processed == pc = "running" /\ pc' # "done"

Rejections == {"invalid", "negative", "missing amount", "rejected"}

\* ------------------------------------------------------------------ claims

\* C1: after processing any sequence of records, accepted or rejected, every
\* account of the Account Table has total = available + held.  (A run that
\* panicked stopped in the middle of a record.)
C1_TotalIsAvailablePlusHeld ==
    pc # "panicked" =>
        \A c \in DOMAIN client_map :
            client_map[c].total = client_map[c].available + client_map[c].held

\* deposits, a dispute and a chargeback have acted on one account, which
\* keeps funds
C1_Witness ==
    /\ pc = "running"
    /\ \E c \in DOMAIN client_map :
          client_map[c].locked /\ client_map[c].total > 0

\* C2: an accepted chargeback locks the client's account; a locked account
\* stays locked in every later state; and every later record of that client,
\* of any type, tx_id and amount, is rejected and leaves the account and the
\* Transaction Ledger unchanged.
C2_Step ==
    /\ (Processed /\ last'.tx_type = "chargeback" /\ result' = "ok")
          => is_client_locked(last'.client_id, client_map')
    /\ \A c \in DOMAIN client_map :
          client_map[c].locked =>
             /\ is_client_locked(c, client_map')
             /\ (Processed /\ last'.client_id = c) =>
                   /\ result' \in Rejections
                   /\ client_map'[c] = client_map[c]
                   /\ tx_map' = tx_map

C2_LockedForever == [][C2_Step]_vars

\* a deposit (with a fresh tx_id) of a locked client was rejected
C2_Witness ==
    /\ last.tx_type = "deposit"
    /\ is_client_locked(last.client_id, client_map)
    /\ last.tx_id \notin DOMAIN tx_map
    /\ result = "invalid"

\* C3: a deposit or withdrawal whose tx_id is already in the Transaction
\* Ledger is rejected whatever its client and amount, and leaves the
\* Transaction Ledger and the Account Table unchanged.
C3_Step ==
    (/\ Processed
     /\ last'.tx_type \in {"deposit", "withdrawal"}
     /\ last'.tx_id \in DOMAIN tx_map)
        => /\ result' = "invalid"
           /\ tx_map' = tx_map
           /\ client_map' = client_map

C3_DuplicateRejected == [][C3_Step]_vars

\* a duplicate withdrawal by a client that has no account: none was created
C3_Witness ==
    /\ last.tx_type = "withdrawal"
    /\ last.tx_id \in DOMAIN tx_map
    /\ tx_map[last.tx_id].client_id # last.client_id
    /\ last.client_id \notin DOMAIN client_map
    /\ result = "invalid"

\* C4: a dispute is accepted only on a record in state Deposited and sets it
\* to InDispute; a resolve or a chargeback is accepted only on a record in
\* state InDispute; resolve sets it to Deposited, chargeback leaves it
\* InDispute.  No other step changes a stored record's state, and no record
\* enters the ledger InDispute; so an accepted resolve or chargeback follows
\* an accepted dispute with no accepted resolve in between, and no record is
\* disputed twice without a resolve in between.
C4_Step ==
    LET t == last'.tx_id IN
    /\ (Processed /\ result' = "ok" /\ last'.tx_type = "dispute") =>
          /\ t \in DOMAIN tx_map
          /\ tx_map[t].deposit_state = "Deposited"
          /\ tx_map'[t].deposit_state = "InDispute"
    /\ (Processed /\ result' = "ok" /\ last'.tx_type = "resolve") =>
          /\ t \in DOMAIN tx_map
          /\ tx_map[t].deposit_state = "InDispute"
          /\ tx_map'[t].deposit_state = "Deposited"
    /\ (Processed /\ result' = "ok" /\ last'.tx_type = "chargeback") =>
          /\ t \in DOMAIN tx_map
          /\ tx_map[t].deposit_state = "InDispute"
          /\ tx_map'[t].deposit_state = "InDispute"
    /\ \A u \in DOMAIN tx_map' :
          IF u \in DOMAIN tx_map
          THEN tx_map'[u].deposit_state # tx_map[u].deposit_state =>
                  /\ u = t
                  /\ \/ /\ last'.tx_type = "dispute"
                        /\ tx_map[u].deposit_state = "Deposited"
                        /\ tx_map'[u].deposit_state = "InDispute"
                     \/ /\ last'.tx_type = "resolve"
                        /\ tx_map[u].deposit_state = "InDispute"
                        /\ tx_map'[u].deposit_state = "Deposited"
          ELSE tx_map'[u].deposit_state # "InDispute"

C4_DisputeStateMachine == [][C4_Step]_vars

\* a chargeback was accepted on a disputed record, which stays InDispute
C4_Witness ==
    /\ last.tx_type = "chargeback"
    /\ result = "ok"
    /\ tx_map[last.tx_id].deposit_state = "InDispute"


\* C5 (as claimed): a withdrawal rejected for insufficient funds, or for a
\* client with no account, is not stored: it leaves the key set of the
\* Transaction Ledger unchanged.
C5_Step ==
    (Processed /\ last'.tx_type = "withdrawal" /\ result' = "rejected")
        => DOMAIN tx_map' = DOMAIN tx_map

C5_RejectedWithdrawalNotStored == [][C5_Step]_vars

\* C6 (as claimed): the record an accepted withdrawal stores is in state
\* Deposited, and a dispute on it by its owner, unlocked, is accepted.
C6_OriginalStep ==
    LET t == last'.tx_id IN
    /\ (Processed /\ last'.tx_type = "withdrawal" /\ result' = "ok")
          => tx_map'[t].deposit_state = "Deposited"
    /\ (/\ Processed
        /\ last'.tx_type = "dispute"
        /\ t \in DOMAIN applied
        /\ tx_map[t].tx_type = "withdrawal"
        /\ tx_map[t].client_id = last'.client_id
        /\ ~is_client_locked(last'.client_id, client_map))
          => result' = "ok"

C6_WithdrawalDeposited == [][C6_OriginalStep]_vars

\* C6 (amended): a stored withdrawal record is always in state
\* NotApplicable and a stored deposit record in Deposited or InDispute, so a
\* dispute on a withdrawal's tx_id, also by its owner with the account
\* unlocked, is rejected and changes neither map.
C6_AmendedStep ==
    LET t == last'.tx_id IN
    /\ \A u \in DOMAIN tx_map' :
          /\ tx_map'[u].tx_type = "withdrawal"
                => tx_map'[u].deposit_state = "NotApplicable"
          /\ tx_map'[u].tx_type = "deposit"
                => tx_map'[u].deposit_state \in {"Deposited", "InDispute"}
    /\ (/\ Processed
        /\ last'.tx_type = "dispute"
        /\ t \in DOMAIN tx_map
        /\ tx_map[t].tx_type = "withdrawal")
          => /\ result' = "rejected"
             /\ tx_map' = tx_map
             /\ client_map' = client_map

C6_WithdrawalNotDisputable == [][C6_AmendedStep]_vars

\* the owner, unlocked, disputed an accepted withdrawal and was rejected
C6_Witness ==
    /\ last.tx_type = "dispute"
    /\ result = "rejected"
    /\ last.tx_id \in DOMAIN applied
    /\ tx_map[last.tx_id].tx_type = "withdrawal"
    /\ tx_map[last.tx_id].client_id = last.client_id
    /\ ~is_client_locked(last.client_id, client_map)

\* C7 (as claimed): what an accepted dispute moves from available to held,
\* what an accepted resolve moves back and what an accepted chargeback
\* removes from held is exactly what the deposit added to available.
C7_Step ==
    LET t == last'.tx_id
        c == last'.client_id
        old == Balance(client_map, c)
        new == Balance(client_map', c)
    IN (Processed /\ result' = "ok" /\ t \in DOMAIN applied) =>
          /\ last'.tx_type = "dispute" =>
                /\ new.held - old.held = applied[t]
                /\ old.available - new.available = applied[t]
          /\ last'.tx_type = "resolve" =>
                /\ old.held - new.held = applied[t]
                /\ new.available - old.available = applied[t]
          /\ last'.tx_type = "chargeback" =>
                /\ old.held - new.held = applied[t]
                /\ old.total - new.total = applied[t]

C7_DisputeMovesDepositedAmount == [][C7_Step]_vars

\* C8 (as claimed): the run never aborts on a record.
C8_NeverAborts == pc # "panicked"

\* C8, the part about unwrap(): every stored record has an amount and its
\* client has an account, so no unwrap() meets a missing value.
C8_UnwrapsSafe ==
    \A t \in DOMAIN tx_map :
        tx_map[t].amount # None /\ tx_map[t].client_id \in DOMAIN client_map

\* C9: a dispute, resolve or chargeback whose tx_id is not in the ledger,
\* whose client is not the stored record's, or whose record is not in the
\* state it needs, is rejected and changes no account and no stored record.
C9_Step ==
    LET t == last'.tx_id
        need == IF last'.tx_type = "dispute" THEN "Deposited" ELSE "InDispute"
    IN (/\ Processed
        /\ last'.tx_type \in {"dispute", "resolve", "chargeback"}
        /\ \/ t \notin DOMAIN tx_map
           \/ tx_map[t].client_id # last'.client_id
           \/ tx_map[t].deposit_state # need)
          => /\ result' \in {"invalid", "rejected"}
             /\ client_map' = client_map
             /\ tx_map' = tx_map

C9_RejectedDisputeChangesNothing == [][C9_Step]_vars

\* a client disputed a Deposited record of another client, both with funds
C9_Witness ==
    /\ last.tx_type = "dispute"
    /\ result = "rejected"
    /\ last.tx_id \in DOMAIN tx_map
    /\ tx_map[last.tx_id].client_id # last.client_id
    /\ tx_map[last.tx_id].deposit_state = "Deposited"
    /\ last.client_id \in DOMAIN client_map
    /\ client_map[last.client_id].available > 0
    /\ client_map[tx_map[last.tx_id].client_id].available > 0

\* C10: right after the accepted resolve of an accepted dispute, the owner's
\* available, held and total are what they were before the dispute, moved
\* only by the client's deposits and withdrawals accepted in between, and
\* the record is Deposited again.
C10_DisputeResolveRoundTrip ==
    (/\ snap # None
     /\ snap[1].resolved
     /\ last.tx_type = "resolve"
     /\ result = "ok")
        => /\ last.tx_id = snap[1].tx_id
           /\ Balance(client_map, snap[1].client_id) = snap[1].acct
           /\ tx_map[snap[1].tx_id].deposit_state = "Deposited"

\* a resolve was accepted after a deposit or withdrawal accepted in between
C10_Witness ==
    /\ snap # None
    /\ snap[1].resolved
    /\ snap[1].between
    /\ last.tx_type = "resolve"
    /\ result = "ok"
    /\ snap[1].acct.available > 0


\* what an accepted chargeback of record t by client c does, if `amount` is
\* the record's amount: held and total go down by it, available stays, the
\* account is locked, the record stays InDispute, nothing else changes
ChargebackEffect(c, t, amount) ==
    /\ client_map'[c].held = client_map[c].held - amount
    /\ client_map'[c].total = client_map[c].total - amount
    /\ client_map'[c].available = client_map[c].available
    /\ client_map'[c].locked
    /\ tx_map'[t].deposit_state = "InDispute"
    /\ tx_map' = tx_map
    /\ DOMAIN client_map' = DOMAIN client_map
    /\ \A o \in DOMAIN client_map : o # c => client_map'[o] = client_map[o]

\* C11 (as claimed): an accepted chargeback subtracts the record's amount,
\* the fixed-point amount its deposit added, from held and from total of the
\* owner, leaves available, sets locked, leaves the record InDispute and
\* changes no other account and no other record.
C11_Step ==
    (Processed /\ last'.tx_type = "chargeback" /\ result' = "ok")
        => ChargebackEffect(last'.client_id, last'.tx_id, applied[last'.tx_id])

C11_ChargebackEffect == [][C11_Step]_vars

\* C11 with the amount as handle_chargeback itself converts it (truncated)
C11_TruncStep ==
    (Processed /\ last'.tx_type = "chargeback" /\ result' = "ok")
        => ChargebackEffect(last'.client_id, last'.tx_id,
                            ToFixedTrunc(tx_map[last'.tx_id].amount[1]))

C11_ChargebackEffectTruncated == [][C11_TruncStep]_vars

\* C12: an accepted deposit adds the deposited amount to total and to
\* available of the client, counting a missing account as all zeros, leaves
\* held and locked as they were (0 and false for a new account), and stores
\* the record with state Deposited.
C12_Step ==
    LET c == last'.client_id
        t == last'.tx_id
        old == Balance(client_map, c)
    IN (Processed /\ last'.tx_type = "deposit" /\ result' = "ok") =>
          /\ t \notin DOMAIN tx_map
          /\ t \in DOMAIN tx_map'
          /\ tx_map'[t].tx_type = "deposit"
          /\ tx_map'[t].client_id = c
          /\ tx_map'[t].deposit_state = "Deposited"
          /\ LET amount == ToFixedRound(tx_map'[t].amount[1])
             IN /\ client_map'[c].available = old.available + amount
                /\ client_map'[c].total = old.total + amount
                /\ client_map'[c].held = old.held
                /\ client_map'[c].locked = is_client_locked(c, client_map)
                /\ c \notin DOMAIN client_map =>
                      /\ client_map'[c].available = amount
                      /\ client_map'[c].total = amount
                      /\ client_map'[c].held = 0

C12_DepositEffect == [][C12_Step]_vars

\* a deposit of a positive amount created the account
C12_Witness ==
    /\ last.tx_type = "deposit"
    /\ result = "ok"
    /\ DOMAIN applied = {last.tx_id}
    /\ client_map[last.client_id].total > 0

\* C13: for an existing, unlocked client and a fresh tx_id, a withdrawal of
\* more than available is rejected and leaves the three amounts; one of at
\* most available (and at least 0) is accepted, takes the amount from
\* available and from total and leaves held.
C13_Step ==
    LET c == last'.client_id
        t == last'.tx_id
    IN (/\ Processed
        /\ last'.tx_type = "withdrawal"
        /\ c \in DOMAIN client_map
        /\ ~client_map[c].locked
        /\ t \notin DOMAIN tx_map
        /\ result' \notin {"missing amount", "negative"})
          => /\ t \in DOMAIN tx_map'
             /\ LET amount == ToFixedRound(tx_map'[t].amount[1])
                IN IF amount > client_map[c].available
                   THEN /\ result' = "rejected"
                        /\ client_map' = client_map
                   ELSE /\ result' = "ok"
                        /\ amount >= 0
                        /\ client_map'[c].available
                              = client_map[c].available - amount
                        /\ client_map'[c].total = client_map[c].total - amount
                        /\ client_map'[c].held = client_map[c].held

C13_WithdrawalEffect == [][C13_Step]_vars

\* a withdrawal of all that was available was accepted
C13_Witness ==
    /\ last.tx_type = "withdrawal"
    /\ result = "ok"
    /\ applied[last.tx_id] < 0
    /\ client_map[last.client_id].available = 0

\* C14: a withdrawal with a fresh tx_id and a present, non-negative amount
\* for a client without an account is rejected and creates the account with
\* available = held = total = 0 and locked = false; no other account changes.
C14_Step ==
    LET c == last'.client_id
        t == last'.tx_id
    IN (/\ Processed
        /\ last'.tx_type = "withdrawal"
        /\ c \notin DOMAIN client_map
        /\ t \notin DOMAIN tx_map
        /\ result' \notin {"missing amount", "negative"})
          => /\ result' = "rejected"
             /\ DOMAIN client_map' = DOMAIN client_map \cup {c}
             /\ client_map'[c] = [available |-> 0, held |-> 0, total |-> 0,
                                  locked |-> FALSE]
             /\ \A o \in DOMAIN client_map : client_map'[o] = client_map[o]

C14_WithdrawalCreatesAccount == [][C14_Step]_vars

\* a withdrawal created a second, empty account beside one with funds
C14_Witness ==
    /\ last.tx_type = "withdrawal"
    /\ result = "rejected"
    /\ last.client_id \in DOMAIN client_map
    /\ client_map[last.client_id]
          = [available |-> 0, held |-> 0, total |-> 0, locked |-> FALSE]
    /\ \A t \in DOMAIN applied : tx_map[t].client_id # last.client_id
    /\ \E o \in DOMAIN client_map : client_map[o].total > 0

\* C15: a deposit or withdrawal whose amount is absent or negative is
\* rejected and leaves the Transaction Ledger and the Account Table
\* unchanged: the handlers report the absent or negative amount and change
\* nothing, and a deposit or withdrawal that changes either map has stored
\* its record, with an amount that is present and not negative.
C15_Step ==
    /\ (Processed /\ result' \in {"missing amount", "negative"})
          => /\ last'.tx_type \in {"deposit", "withdrawal"}
             /\ tx_map' = tx_map
             /\ client_map' = client_map
    /\ (/\ Processed
        /\ last'.tx_type \in {"deposit", "withdrawal"}
        /\ (tx_map' # tx_map \/ client_map' # client_map))
          => /\ last'.tx_id \in DOMAIN tx_map'
             /\ tx_map'[last'.tx_id].amount # None
             /\ tx_map'[last'.tx_id].amount[1] >= 0

C15_BadAmountRejected == [][C15_Step]_vars

\* a withdrawal with a negative amount by an unknown client: no account
C15_Witness ==
    /\ last.tx_type = "withdrawal"
    /\ result = "negative"
    /\ last.client_id \notin DOMAIN client_map
    /\ last.tx_id \notin DOMAIN tx_map


\* C16 (as claimed): after the scenario's deposit of 5.0, dispute, resolve,
\* dispute and chargeback, client 1 has available = 5.0, held = 0,
\* total = 0, locked = true, and a further deposit to client 1 is rejected
\* and leaves that balance.
C16_ScenarioAsClaimed ==
    scen \in {Len(Scenario), Len(Scenario) + 1} =>
        /\ scen = Len(Scenario) + 1 => result \in Rejections
        /\ 1 \in DOMAIN client_map
        /\ client_map[1] = [available |-> ToFixedRound(ScenarioAmount),
                            held |-> 0, total |-> 0, locked |-> TRUE]

\* C16 (amended): after the scenario client 1 has available = 0, held = 0,
\* total = 0, locked = true; a further deposit to client 1 is rejected and
\* leaves that balance and the ledger.
C16_Scenario ==
    scen \in {Len(Scenario), Len(Scenario) + 1} =>
        /\ scen = Len(Scenario) + 1 => result \in Rejections
        /\ result # "panic"
        /\ DOMAIN client_map = {1}
        /\ client_map[1] = [available |-> 0, held |-> 0, total |-> 0,
                            locked |-> TRUE]
        /\ DOMAIN tx_map = {1}
        /\ tx_map[1].deposit_state = "InDispute"

\* the scenario ran and a further deposit, with a fresh tx_id, was rejected
C16_Witness ==
    /\ scen = Len(Scenario) + 1
    /\ last.tx_type = "deposit"
    /\ last.tx_id \notin DOMAIN tx_map
    /\ result = "invalid"


\* the stored records of client c that are in state InDispute
OpenDisputes(c) ==
    {t \in DOMAIN tx_map :
        tx_map[t].client_id = c /\ tx_map[t].deposit_state = "InDispute"}

\* C17 (as claimed): while a client has a record InDispute and the account
\* is not locked, a deposit with a fresh tx_id and a present, non-negative
\* amount is accepted, adds the amount to available and total and leaves
\* held.
C17_Step ==
    LET c == last'.client_id
        t == last'.tx_id
    IN (/\ Processed
        /\ last'.tx_type = "deposit"
        /\ OpenDisputes(c) # {}
        /\ ~is_client_locked(c, client_map)
        /\ t \notin DOMAIN tx_map
        /\ result' \notin {"missing amount", "negative"})
          => /\ result' = "ok"
             /\ LET amount == ToFixedRound(tx_map'[t].amount[1])
                IN /\ client_map'[c].available
                         = client_map[c].available + amount
                   /\ client_map'[c].total = client_map[c].total + amount
                   /\ client_map'[c].held = client_map[c].held

C17_DepositWhileInDispute == [][C17_Step]_vars

\* C17 for the deposits that do not overflow the balance
C17_NoOverflowStep == result' # "panic" => C17_Step

C17_DepositWhileInDisputeNoOverflow == [][C17_NoOverflowStep]_vars

RECURSIVE SumTrunc(_)
SumTrunc(S) ==
    IF S = {} THEN 0
    ELSE LET t == CHOOSE x \in S : TRUE
         IN ToFixedTrunc(tx_map[t].amount[1]) + SumTrunc(S \ {t})

\* C18: in every state between two records held >= 0 for every account,
\* and for every unlocked account held is the sum of the amounts, as
\* handle_dispute converts them, of the client's records in state InDispute.
C18_HeldIsSumOfDisputes ==
    pc # "panicked" =>
        \A c \in DOMAIN client_map :
            /\ client_map[c].held >= 0
            /\ ~client_map[c].locked
                  => client_map[c].held = SumTrunc(OpenDisputes(c))

\* an unlocked client with two records in dispute
C18_Witness ==
    /\ pc = "running"
    /\ \E c \in DOMAIN client_map :
          /\ ~client_map[c].locked
          /\ Cardinality(OpenDisputes(c)) = 2
          /\ client_map[c].held > 1

\* the parts of C19 that are about one step: an accepted withdrawal leaves
\* available >= 0, and available goes from >= 0 to < 0 only in a dispute, of
\* a client who has withdrawn funds
C19_StepPart ==
    LET c == last'.client_id IN
    /\ (Processed /\ last'.tx_type = "withdrawal" /\ result' = "ok")
          => client_map'[c].available >= 0
    /\ \A o \in DOMAIN client_map' :
          (Balance(client_map, o).available >= 0
             /\ client_map'[o].available < 0)
          => /\ last'.tx_type = "dispute"
             /\ o = c
             /\ \E w \in DOMAIN applied :
                   /\ tx_map[w].tx_type = "withdrawal"
                   /\ tx_map[w].client_id = c
                   /\ applied[w] < 0

\* C19 (as claimed): every unlocked account has total >= 0; available is
\* negative only while held > 0, in every account; and the step part.
C19_OriginalStep ==
    /\ C19_StepPart
    /\ pc' # "panicked" =>
          \A o \in DOMAIN client_map' :
             /\ ~client_map'[o].locked => client_map'[o].total >= 0
             /\ client_map'[o].available < 0 => client_map'[o].held > 0

C19_NegativeAvailableOnlyWhileHeld == [][C19_OriginalStep]_vars

\* C19 (amended): every unlocked account has total >= 0 and has available
\* negative only while held > 0; and the step part.
C19_AmendedStep ==
    /\ C19_StepPart
    /\ pc' # "panicked" =>
          \A o \in DOMAIN client_map' :
             ~client_map'[o].locked =>
                /\ client_map'[o].total >= 0
                /\ client_map'[o].available < 0 => client_map'[o].held > 0

C19_UnlockedNegativeAvailableOnlyWhileHeld == [][C19_AmendedStep]_vars

\* the dispute of a deposit that had been withdrawn made available negative
C19_Witness ==
    /\ last.tx_type = "dispute"
    /\ result = "ok"
    /\ ~client_map[last.client_id].locked
    /\ client_map[last.client_id].available < 0
    /\ client_map[last.client_id].total = 0

\* C20: processing a record of client c, accepted or not, neither creates
\* nor changes the account of another client, and does not change the
\* deposit_state of a stored record of another client.
C20_Step ==
    LET c == last'.client_id IN
    Processed =>
        /\ \A o \in ClientIds \ {c} :
              /\ o \in DOMAIN client_map' <=> o \in DOMAIN client_map
              /\ o \in DOMAIN client_map => client_map'[o] = client_map[o]
        /\ \A t \in DOMAIN tx_map :
              tx_map[t].client_id # c =>
                 /\ t \in DOMAIN tx_map'
                 /\ tx_map'[t] = tx_map[t]

C20_OtherClientsUntouched == [][C20_Step]_vars

\* a client sent a chargeback for a record in dispute of another client
C20_Witness ==
    /\ last.tx_type = "chargeback"
    /\ last.tx_id \in DOMAIN tx_map
    /\ tx_map[last.tx_id].client_id # last.client_id
    /\ tx_map[last.tx_id].deposit_state = "InDispute"
    /\ last.client_id \in DOMAIN client_map
    /\ result = "rejected"


\* the accepted deposits and withdrawals of client c
Accepted(c, ty) ==
    {t \in DOMAIN applied :
        tx_map[t].client_id = c /\ tx_map[t].tx_type = ty}

RECURSIVE SumAmounts(_)
SumAmounts(S) ==
    IF S = {} THEN 0
    ELSE LET t == CHOOSE x \in S : TRUE
         IN ToFixedRound(tx_map[t].amount[1]) + SumAmounts(S \ {t})

\* C21, the part about a state: between two records each client's total is
\* the sum of the amounts of the client's accepted deposits, minus the sum
\* of the amounts of the client's accepted withdrawals, minus what the
\* client's accepted chargeback removed.
C21_TotalIsLedgerSum ==
    pc # "panicked" =>
        \A c \in ClientIds :
            Balance(client_map, c).total
              = SumAmounts(Accepted(c, "deposit"))
                  - SumAmounts(Accepted(c, "withdrawal"))
                  - (IF c \in DOMAIN charged THEN charged[c] ELSE 0)

\* C21: the state part after every step, and a chargeback is accepted only
\* for a client who has had no chargeback accepted.
C21_Step ==
    /\ C21_TotalIsLedgerSum'
    /\ (Processed /\ last'.tx_type = "chargeback" /\ result' = "ok")
          => last'.client_id \notin DOMAIN charged

C21_TotalIsDepositsMinusWithdrawalsMinusChargeback == [][C21_Step]_vars

\* a client with an accepted deposit, an accepted withdrawal and an
\* accepted chargeback, and a record that was rejected after it
C21_Witness ==
    /\ pc = "running"
    /\ result \in Rejections
    /\ \E c \in DOMAIN charged :
          /\ charged[c] > 0
          /\ last.client_id = c
          /\ \E w \in Accepted(c, "withdrawal") :
                ToFixedRound(tx_map[w].amount[1]) > 0


====
